---- MODULE Spec2Model ----
(***************************************************************************)
(* Model of resources/lib/subtitles/subtitle.py of translate_subs: the     *)
(* tag-aware tokenizer (line_regex), SrtFrase, SrtLine, SrtBlock, SrtDoc;  *)
(* and of the pause/resume handlers of PlayerMonitor in service.py.        *)
(* A Python str is a sequence of one-character strings; None is the empty  *)
(* option <<>> and a present value v is <<v>>.                             *)
(***************************************************************************)
EXTENDS Integers, Sequences, FiniteSets, TLC

VARIABLES
    srt_doc,         \* the text given to SrtDoc(srt_doc, ignore_colours)
    ignore_colours,  \* the ignore_colours argument
    blocks,          \* SrtDoc.blocks
    ret,             \* what the last call returned: [op, val, ...]
    pass1,           \* the caller's first frases() pass, <<>> before it
    raw,             \* the text given to SrtLine(text, ignore_colours)
    line,            \* the SrtLine under test
    player,          \* the PlayerMonitor of service.py, <<>> when there is none
    events           \* the player events handled so far, with what each did

vars == <<srt_doc, ignore_colours, blocks, ret, pass1, raw, line, player,
          events>>

-----------------------------------------------------------------------------
(* Bounds of the model *)

\* pieces per generated line
MaxPieces == 4

\* stretches of text per generated document
MaxParts == 2

\* player events handled in one behaviour
MaxEvents == 4

-----------------------------------------------------------------------------
(* Python str primitives *)

\* characters str.strip() removes and \s matches
Whitespace == {" ", "\t", "\n", "\r"}

\* a local variable: Body, with v as the variable's value
With(v, Body(_)) == Body(v)

\* str.lstrip(): from the first character that is no whitespace on
LStrip(s) ==
    IF \E q \in 1..Len(s) : s[q] \notin Whitespace
    THEN SubSeq(s, CHOOSE q \in 1..Len(s) :
                       /\ s[q] \notin Whitespace
                       /\ \A k \in 1..(q - 1) : s[k] \in Whitespace,
                Len(s))
    ELSE <<>>

\* str.rstrip(): up to the last character that is no whitespace
RStrip(s) ==
    IF \E q \in 1..Len(s) : s[q] \notin Whitespace
    THEN SubSeq(s, 1, CHOOSE q \in 1..Len(s) :
                          /\ s[q] \notin Whitespace
                          /\ \A k \in (q + 1)..Len(s) : s[k] \in Whitespace)
    ELSE <<>>

\* str.strip()
Strip(s) == RStrip(LStrip(s))

\* sep.join(parts)
RECURSIVE Join(_, _)
Join(sep, parts) ==
    IF parts = <<>> THEN <<>>
    ELSE IF Len(parts) = 1 THEN parts[1]
    ELSE parts[1] \o sep \o Join(sep, Tail(parts))

\* t[p:p+len(lit)] == lit, positions 1-based
HasLit(t, p, lit) ==
    /\ p + Len(lit) - 1 <= Len(t)
    /\ SubSeq(t, p, p + Len(lit) - 1) = lit

\* s.find(sep, p), 1-based: the first index >= p where sep starts, 0 when
\* there is none
Find(s, sep, p) ==
    IF \E q \in p..Len(s) : HasLit(s, q, sep)
    THEN CHOOSE q \in p..Len(s) :
             HasLit(s, q, sep) /\ \A k \in p..(q - 1) : ~HasLit(s, k, sep)
    ELSE 0

\* s.split(sep): left to right, cutting at each non-overlapping sep
RECURSIVE SplitFrom(_, _, _)
SplitFrom(s, sep, start) ==
    IF Find(s, sep, start) = 0 THEN << SubSeq(s, start, Len(s)) >>
    ELSE << SubSeq(s, start, Find(s, sep, start) - 1) >>
         \o SplitFrom(s, sep, Find(s, sep, start) + Len(sep))

Split(s, sep) == SplitFrom(s, sep, 1)

\* a or b, on optional strings: a when a is neither None nor ''
PyOr(a, b) == IF a # <<>> /\ a[1] # <<>> THEN a ELSE b

-----------------------------------------------------------------------------
(* line_regex, with the backtracking order of Python's re.                 *)
(* A position is a 1-based index; an end is the index after the match;     *)
(* 0 is "no match".                                                        *)

\* \s* : greedy, the first index >= p holding no whitespace
SkipWs(t, p) ==
    IF \E q \in p..Len(t) : t[q] \notin Whitespace
    THEN CHOOSE q \in p..Len(t) :
             t[q] \notin Whitespace /\ \A k \in p..(q - 1) : t[k] \in Whitespace
    ELSE IF p > Len(t) THEN p ELSE Len(t) + 1

\* [^>]*> : the index of the first '>' at or after p, 0 when there is none
FirstGt(t, p) ==
    IF \E q \in p..Len(t) : t[q] = ">"
    THEN CHOOSE q \in p..Len(t) :
             t[q] = ">" /\ \A k \in p..(q - 1) : t[k] # ">"
    ELSE 0

\* group 1 written <font[^>]*>: no whitespace allowed before the tag name
FontOpen_NoWs(t, p) ==
    IF p > Len(t) \/ t[p] # "<" THEN 0
    ELSE IF ~HasLit(t, p + 1, <<"f", "o", "n", "t">>) THEN 0
    ELSE LET g == FirstGt(t, p + 5) IN
         IF g = 0 THEN 0 ELSE g + 1

\* a tag ends after its '>' at g; no '>' (g = 0), no tag
TagEnd(g) == IF g = 0 THEN 0 ELSE g + 1

\* group 1: <\s*font[^>]*>
FontOpen(t, p) ==
    IF p > Len(t) \/ t[p] # "<" THEN 0
    ELSE IF ~HasLit(t, SkipWs(t, p + 1), <<"f", "o", "n", "t">>) THEN 0
    ELSE TagEnd(FirstGt(t, SkipWs(t, p + 1) + 4))

\* (?:<\s*[^/f][^>]*>)? : the ends the engine tries, in order; \s* gives
\* whitespace back one character at a time and [^/f] takes the character at q
RECURSIVE OtherOpenFrom(_, _, _)
OtherOpenFrom(t, p, q) ==
    IF q <= p THEN <<>>
    ELSE (IF q <= Len(t) /\ t[q] \notin {"/", "f"} /\ FirstGt(t, q + 1) # 0
          THEN << FirstGt(t, q + 1) + 1 >> ELSE <<>>)
         \o OtherOpenFrom(t, p, q - 1)

OtherOpenEnds(t, p) ==
    IF p > Len(t) \/ t[p] # "<" THEN <<>>
    ELSE OtherOpenFrom(t, p, SkipWs(t, p + 1))

\* /[^f][^>]*> at q, after <\s*
OtherCloseName(t, q) ==
    IF q > Len(t) \/ t[q] # "/" THEN 0
    ELSE IF q + 1 > Len(t) \/ t[q + 1] = "f" THEN 0
    ELSE TagEnd(FirstGt(t, q + 2))

\* (?:<\s*/[^f][^>]*>)?
OtherClose(t, p) ==
    IF p > Len(t) \/ t[p] # "<" THEN 0
    ELSE OtherCloseName(t, SkipWs(t, p + 1))

\* one repetition of (?(1)<\s*/font\s*): group 1 always took part here
FontCloseOne(t, p) ==
    IF p > Len(t) \/ t[p] # "<" THEN 0
    ELSE IF ~HasLit(t, SkipWs(t, p + 1), <<"/", "f", "o", "n", "t">>) THEN 0
    ELSE SkipWs(t, SkipWs(t, p + 1) + 5)

RECURSIVE FontCloseRest(_, _)
FontCloseRest(t, q) ==
    IF FontCloseOne(t, q) = 0 THEN q
    ELSE FontCloseRest(t, FontCloseOne(t, q))

\* the '>' that ends group 3, at r
FontCloseGt(t, r) == IF r <= Len(t) /\ t[r] = ">" THEN r + 1 ELSE 0

\* group 3: ((?(1)<\s*/font\s*)+>)
FontClose(t, p) ==
    IF FontCloseOne(t, p) = 0 THEN 0
    ELSE FontCloseGt(t, FontCloseRest(t, FontCloseOne(t, p)))

\* (?:<\s*/[^f][^>]*>)?(group 3) with group 2 ending at e: the optional
\* closing tag is tried first, then the tail without it
TailAt(t, e) ==
    IF OtherClose(t, e) # 0 /\ FontClose(t, OtherClose(t, e)) # 0
    THEN << [e |-> e, oc |-> OtherClose(t, e),
             f |-> FontClose(t, OtherClose(t, e))] >>
    ELSE IF FontClose(t, e) # 0
    THEN << [e |-> e, oc |-> e, f |-> FontClose(t, e)] >>
    ELSE <<>>

\* (.*?) from s on: the ends group 2 can take; '.' takes no newline
LazyEnds(t, s) ==
    { e \in s..(Len(t) + 1) : \A k \in s..(e - 1) : t[k] # "\n" }

\* (.*?)(?:<\s*/[^f][^>]*>)?(group 3) with group 2 starting at s: the lazy
\* group 2 grows one character at a time, so the shortest end wins
LazyTail(t, s) ==
    IF \E e \in LazyEnds(t, s) : TailAt(t, e) # <<>>
    THEN TailAt(t, CHOOSE e \in LazyEnds(t, s) :
                       /\ TailAt(t, e) # <<>>
                       /\ \A k \in s..(e - 1) : TailAt(t, k) = <<>>)
    ELSE <<>>

\* group 2 starts at s and the rest of the alternative matched as tail
TailFrom(s, tail) ==
    << [s |-> s, e |-> tail[1].e, oc |-> tail[1].oc, f |-> tail[1].f] >>

\* the first start of group 2 (after the optional opening tag, or without it)
\* from which the rest of the tagged alternative matches
RECURSIVE FirstTail(_, _)
FirstTail(t, starts) ==
    IF starts = <<>> THEN <<>>
    ELSE IF LazyTail(t, starts[1]) # <<>>
    THEN TailFrom(starts[1], LazyTail(t, starts[1]))
    ELSE FirstTail(t, Tail(starts))

\* the match object of the tagged alternative: group 1 is t[p:g1], r the
\* rest of the alternative
TaggedMatch(t, p, g1, r) ==
    IF r = <<>> THEN <<>>
    ELSE << [end |-> r[1].f,
             group1 |-> << SubSeq(t, p, g1 - 1) >>,
             group2 |-> << SubSeq(t, r[1].s, r[1].e - 1) >>,
             group3 |-> << SubSeq(t, r[1].oc, r[1].f - 1) >>,
             group4 |-> <<>>] >>

\* the tagged alternative at p, group 1 ending at g1
TaggedFrom(t, p, g1) ==
    IF g1 = 0 THEN <<>>
    ELSE TaggedMatch(t, p, g1, FirstTail(t, OtherOpenEnds(t, g1) \o <<g1>>))

\* the tagged alternative at p: <<match>> or <<>>
TaggedRun(t, p) == TaggedFrom(t, p, FontOpen(t, p))

\* the plain run written [^<>\s]+ : it stops at whitespace
PlainEnd_StopAtWs(t, p) ==
    IF \E q \in p..Len(t) : t[q] \in ({"<", ">"} \cup Whitespace)
    THEN CHOOSE q \in p..Len(t) :
             /\ t[q] \in ({"<", ">"} \cup Whitespace)
             /\ \A k \in p..(q - 1) : t[k] \notin ({"<", ">"} \cup Whitespace)
    ELSE Len(t) + 1

\* [^<>]+ : greedy
\* the first index >= p holding '<' or '>', the index after t when none does
PlainEnd(t, p) ==
    IF \E q \in p..Len(t) : t[q] \in {"<", ">"}
    THEN CHOOSE q \in p..Len(t) :
             t[q] \in {"<", ">"} /\ \A k \in p..(q - 1) : t[k] \notin {"<", ">"}
    ELSE Len(t) + 1

\* the plain alternative at p: (?:^|(?<=>))([^<>]+)
PlainRun(t, p) ==
    IF ~(p = 1 \/ t[p - 1] = ">") THEN <<>>
    ELSE IF PlainEnd(t, p) = p THEN <<>>
    ELSE << [end |-> PlainEnd(t, p), group1 |-> <<>>, group2 |-> <<>>,
             group3 |-> <<>>,
             group4 |-> << SubSeq(t, p, PlainEnd(t, p) - 1) >>] >>

\* a|b : the first alternative that matches
Alt(a, b) == IF a # <<>> THEN a ELSE b

\* line_regex at p: the tagged alternative, else the plain one
MatchAt(t, p) == Alt(TaggedRun(t, p), PlainRun(t, p))

\* line_regex.finditer(text) from p on: the scan stops at the leftmost index
\* with a match and goes on from the end of that match
RECURSIVE FindIterFrom(_, _), MatchesFrom(_, _)
FindIterFrom(t, p) ==
    IF \E q \in p..Len(t) : MatchAt(t, q) # <<>>
    THEN MatchesFrom(t, MatchAt(t, CHOOSE q \in p..Len(t) :
                                /\ MatchAt(t, q) # <<>>
                                /\ \A k \in p..(q - 1) : MatchAt(t, k) = <<>>))
    ELSE <<>>

\* the match m, then the matches after it
MatchesFrom(t, m) == m \o FindIterFrom(t, m[1].end)

\* line_regex.finditer(text)

finditer(t) == FindIterFrom(t, 1)

-----------------------------------------------------------------------------
(* SrtFrase *)

\* SrtFrase.__init__; text is a str, open_tags and closing_tags are optional
SrtFrase(text, open_tags, closing_tags, ignore_col) ==
    [_ignore_col  |-> ignore_col,
     open_tags    |-> PyOr(open_tags, << <<>> >>)[1],
     _text        |-> Strip(text),
     closing_tags |-> PyOr(closing_tags, << <<>> >>)[1]]

\* SrtFrase.__str__
SrtFrase_str(frase) ==
    IF frase._text # <<>>
    THEN IF frase._ignore_col
         THEN frase._text
         ELSE frase.open_tags \o frase._text \o frase.closing_tags
    ELSE <<>>

\* SrtFrase.__bool__
SrtFrase_bool(frase) == frase._text # <<>>

-----------------------------------------------------------------------------
(* SrtLine *)

\* the loop of SrtLine._parse_text over the matches
RECURSIVE ParseMatches(_, _)
ParseMatches(matches, ignor_col) ==
    IF matches = <<>> THEN <<>>
    ELSE With(matches[1], LAMBDA match :
         With(Strip(PyOr(match.group4, match.group2)[1]), LAMBDA text :
         (IF text # <<>>
          THEN << SrtFrase(text, match.group1, match.group3, ignor_col) >>
          ELSE <<>>)
         \o ParseMatches(Tail(matches), ignor_col)))

\* SrtLine.__init__
SrtLine(text, ignore_col) ==
    [_ignore_col |-> ignore_col,
     _frases     |-> ParseMatches(finditer(text), ignore_col)]

\* SrtLine.__str__
SrtLine_str(l) ==
    IF l._frases # <<>>
    THEN Join(<<" ">>, [i \in 1..Len(l._frases) |-> SrtFrase_str(l._frases[i])])
    ELSE <<>>

\* SrtLine.__bool__
SrtLine_bool(l) == l._frases # <<>>

-----------------------------------------------------------------------------
(* Inputs: lines are concatenations of pieces *)

FontOpenTag  == <<"<", " ", "f", "o", "n", "t", " ", "c", ">">>
FontCloseTag == <<"<", "/", "f", "o", "n", "t", " ", ">">>
BoldOpenTag  == <<"<", "b", ">">>
BoldCloseTag == <<"<", "/", "b", ">">>

Pieces == {FontOpenTag, FontCloseTag, BoldOpenTag, BoldCloseTag, <<"x">>, <<" ">>}

RECURSIVE Concat(_)
Concat(parts) == IF parts = <<>> THEN <<>> ELSE parts[1] \o Concat(Tail(parts))

LineInputs ==
    { Concat(ps) : ps \in UNION { [1..n -> Pieces] : n \in 0..MaxPieces } }

-----------------------------------------------------------------------------
(* The tokenizer and SrtLine on their own: SpecLine *)

InitLine ==
    \E text \in LineInputs, ign \in BOOLEAN :
        /\ raw = text
        /\ ignore_colours = ign
        /\ line = SrtLine(text, ign)
        /\ ret = [op |-> "new"]
        /\ srt_doc = <<>>
        /\ blocks = <<>>
        /\ pass1 = <<>>
        /\ player = <<>>
        /\ events = <<>>

\* str(line)
LineStr ==
    /\ ret' = [op |-> "line_str", val |-> SrtLine_str(line)]
    /\ UNCHANGED <<srt_doc, ignore_colours, blocks, pass1, raw, line, player,
                 events>>

\* bool(line)
LineBool ==
    /\ ret' = [op |-> "line_bool", val |-> SrtLine_bool(line)]
    /\ UNCHANGED <<srt_doc, ignore_colours, blocks, pass1, raw, line, player,
                 events>>

NextLine == LineStr \/ LineBool

SpecLine == InitLine /\ [][NextLine]_vars

-----------------------------------------------------------------------------
(* Properties of the tokenizer and of SrtLine: SpecLine *)

\* no '<' and no '>'
NoMarkup(t) == \A i \in 1..Len(t) : t[i] \notin {"<", ">"}

\* t with every run of whitespace replaced by one space
RECURSIVE CollapseWs(_)
CollapseWs(t) ==
    IF t = <<>> THEN <<>>
    ELSE IF Head(t) \in Whitespace
         THEN <<" ">> \o CollapseWs(LStrip(t))
         ELSE <<Head(t)>> \o CollapseWs(Tail(t))

\* C6 as stated: for a line with no markup, rendering the parsed Line returns
\* the line with interior whitespace runs collapsed to single spaces and
\* leading/trailing whitespace removed.
C6_PlainCollapsed ==
    (ret.op = "line_str" /\ NoMarkup(raw)) =>
        ret.val = CollapseWs(Strip(raw))

\* C6 amended: for a line with no markup, rendering the parsed Line returns
\* the line with leading/trailing whitespace removed; interior whitespace
\* runs are kept as they are.
C6_PlainStripped ==
    (ret.op = "line_str" /\ NoMarkup(raw)) => ret.val = Strip(raw)

\* C6 witness: a rendered plain line that had whitespace at an end and
\* whitespace inside
C6_Witness ==
    /\ ret.op = "line_str"
    /\ NoMarkup(raw)
    /\ Strip(raw) # raw
    /\ \E i \in 2..(Len(ret.val) - 1) : ret.val[i] \in Whitespace

\* a tag of the font family starts at p: '<', whitespace, an optional '/',
\* then "font"
FontTagAt(t, p) ==
    /\ t[p] = "<"
    /\ LET q == SkipWs(t, p + 1) IN
       \/ HasLit(t, q, <<"f", "o", "n", "t">>)
       \/ HasLit(t, q, <<"/", "f", "o", "n", "t">>)

\* a closed tag starts at p
TagAt(t, p) ==
    /\ t[p] = "<"
    /\ \E g \in (p + 1)..Len(t) :
          /\ t[g] = ">"
          /\ \A k \in (p + 1)..(g - 1) : t[k] \notin {"<", ">"}

HasFontTag(t) == \E p \in 1..Len(t) : FontTagAt(t, p)

HasOtherTag(t) == \E p \in 1..Len(t) : TagAt(t, p) /\ ~FontTagAt(t, p)

\* C7 as stated: with suppress_markup=true the rendered output never contains
\* font/color tag markup, whatever was parsed: every Span renders as its text
\* alone and a font-tagged run renders as its inner text only.
C7_SuppressedNoFontMarkup ==
    (ret.op = "line_str" /\ ignore_colours) =>
        /\ ret.val = Join(<<" ">>, [i \in 1..Len(line._frases) |->
                                       line._frases[i]._text])
        /\ ~HasFontTag(ret.val)

\* C8 as stated: no tag other than a font tag appears in any Span's text,
\* open_markup or close_markup, nor in the rendered Line.
C8_NoOtherTagKept ==
    /\ \A i \in 1..Len(line._frases) :
          /\ ~HasOtherTag(line._frases[i]._text)
          /\ ~HasOtherTag(line._frases[i].open_tags)
          /\ ~HasOtherTag(line._frases[i].closing_tags)
    /\ ret.op = "line_str" => ~HasOtherTag(ret.val)

\* a font opening tag: <\s*font[^>]*>
IsFontOpenTag(t) ==
    /\ Len(t) >= 6
    /\ t[1] = "<" /\ t[Len(t)] = ">"
    /\ NoMarkup(SubSeq(t, 2, Len(t) - 1))
    /\ HasLit(t, SkipWs(t, 2), <<"f", "o", "n", "t">>)

\* a font closing tag: <\s*/font\s*>
IsFontCloseTag(t) ==
    /\ Len(t) >= 7
    /\ t[1] = "<" /\ t[Len(t)] = ">"
    /\ Strip(SubSeq(t, 2, Len(t) - 1)) = <<"/", "f", "o", "n", "t">>

\* the ways to read raw as opening tag, inner text, closing tag
FontRunSplits ==
    { <<i, j>> \in (1..Len(raw)) \X (1..Len(raw)) :
        /\ i < j
        /\ IsFontOpenTag(SubSeq(raw, 1, i))
        /\ IsFontCloseTag(SubSeq(raw, j, Len(raw)))
        /\ NoMarkup(SubSeq(raw, i + 1, j - 1)) }

\* C9: a line that is one font-tagged run, its inner text trimmed and not
\* empty, parsed with suppress_markup=false, yields exactly one Span with the
\* full opening tag, the inner text and the full closing tag, and renders as
\* the original line; when the trimmed inner text is empty the Line has no
\* Span.
C9_FontRunRoundTrip ==
    \A s \in FontRunSplits :
        LET open  == SubSeq(raw, 1, s[1])
            inner == SubSeq(raw, s[1] + 1, s[2] - 1)
            close == SubSeq(raw, s[2], Len(raw))
        IN /\ Strip(inner) = <<>> => line._frases = <<>>
           /\ (inner # <<>> /\ inner = Strip(inner) /\ ~ignore_colours) =>
                 /\ line._frases =
                      << [_ignore_col |-> FALSE, open_tags |-> open,
                          _text |-> inner, closing_tags |-> close] >>
                 /\ ret.op = "line_str" => ret.val = raw

\* C9 witness: a rendered font-tagged run whose tags hold whitespace and whose
\* inner text has several characters
C9_Witness ==
    /\ ret.op = "line_str"
    /\ ~ignore_colours
    /\ \E s \in FontRunSplits :
          /\ s[2] - s[1] - 1 >= 2
          /\ SubSeq(raw, s[1] + 1, s[2] - 1) = Strip(SubSeq(raw, s[1] + 1, s[2] - 1))
          /\ \E k \in 1..s[1] : raw[k] \in Whitespace
    /\ Len(line._frases) = 1

-----------------------------------------------------------------------------
(* SrtBlock *)

\* SrtBlock._parse without its try/except: the IndexError leaves the constructor
SrtBlock_NoExcept(block_str, no_col) ==
    LET lines == Split(Strip(block_str), <<"\n">>) IN
    IF Len(lines) < 2
    THEN [idx |-> lines[1], _time |-> <<>>, lines |-> <<>>,
          text |-> <<>>, exc |-> "IndexError"]
    ELSE LET objs == [i \in 1..(Len(lines) - 2) |->
                          SrtLine(Strip(lines[i + 2]), no_col)]
         IN [idx |-> lines[1], _time |-> lines[2],
             lines |-> SelectSeq(objs, SrtLine_bool),
             text |-> <<>>, exc |-> "none"]

\* SrtBlock.__init__ and SrtBlock._parse; exc names the exception that leaves
\* the constructor ("none": the IndexError of lines[1] is caught).  The
\* attribute text does not exist until something assigns it: <<>>
SrtBlock(block_str, no_col) ==
    With(Split(Strip(block_str), <<"\n">>), LAMBDA lines :
    IF Len(lines) < 2
    THEN [idx |-> lines[1], _time |-> <<>>, lines |-> <<>>,
          text |-> <<>>, exc |-> "none"]
    ELSE With([i \in 1..(Len(lines) - 2) |->
                   SrtLine(Strip(lines[i + 2]), no_col)], LAMBDA objs :
         [idx |-> lines[1], _time |-> lines[2],
          lines |-> SelectSeq(objs, SrtLine_bool),
          text |-> <<>>, exc |-> "none"]))

\* SrtBlock.__bool__
SrtBlock_bool(block) == block.lines # <<>>

\* SrtBlock.__str__
SrtBlock_str(block) ==
    IF SrtBlock_bool(block)
    THEN With(SelectSeq(block.lines, SrtLine_bool), LAMBDA present :
         Join(<<"\n">>,
              <<block.idx, block._time>>
              \o [i \in 1..Len(present) |-> SrtLine_str(present[i])]
              \o << <<"\n">> >>))
    ELSE <<>>

-----------------------------------------------------------------------------
(* SrtDoc *)

\* SrtDoc.__init__: the Blocks of the non-empty chunks; an exception of a
\* Block constructor leaves the Document constructor
SrtDoc(text, ignore_col) ==
    With(SelectSeq(Split(text, <<"\n", "\n">>), LAMBDA c : c # <<>>),
         LAMBDA chunks :
    With([i \in 1..Len(chunks) |-> SrtBlock(chunks[i], ignore_col)],
         LAMBDA objs :
    With(SelectSeq(objs, LAMBDA b : b.exc # "none"), LAMBDA failed :
    IF failed # <<>>
    THEN [blocks |-> <<>>, exc |-> failed[1].exc]
    ELSE [blocks |-> objs, exc |-> "none"])))

\* str(idx): the decimal digits of a positive int
RECURSIVE Str(_)
Str(n) ==
    LET digit == << <<"0">>, <<"1">>, <<"2">>, <<"3">>, <<"4">>,
                    <<"5">>, <<"6">>, <<"7">>, <<"8">>, <<"9">> >>
    IN IF n < 10 THEN digit[n + 1] ELSE Str(n \div 10) \o digit[(n % 10) + 1]

\* block_iter with idx += 1 outside the if: the label advances on every Block
RECURSIVE BlockIter_CountAll(_, _, _)
BlockIter_CountAll(bs, i, idx) ==
    IF i > Len(bs) THEN [blocks |-> bs, parts |-> <<>>]
    ELSE IF SrtBlock_bool(bs[i])
         THEN LET renum == [bs EXCEPT ![i].idx = Str(idx)]
                  rest  == BlockIter_CountAll(renum, i + 1, idx + 1)
              IN [blocks |-> rest.blocks,
                  parts  |-> << SrtBlock_str(renum[i]) >> \o rest.parts]
         ELSE BlockIter_CountAll(bs, i + 1, idx + 1)

\* block_iter of SrtDoc.__str__ from block i on, idx the next label: the
\* Blocks as it leaves them and the strings it yields
RECURSIVE BlockIter(_, _, _)
BlockIter(bs, i, idx) ==
    IF i > Len(bs) THEN [blocks |-> bs, parts |-> <<>>]
    ELSE IF SrtBlock_bool(bs[i])
         THEN With([bs EXCEPT ![i].idx = Str(idx)], LAMBDA renum :
              With(BlockIter(renum, i + 1, idx + 1), LAMBDA rest :
              [blocks |-> rest.blocks,
               parts  |-> << SrtBlock_str(renum[i]) >> \o rest.parts]))
         ELSE BlockIter(bs, i + 1, idx)

\* SrtDoc.__str__ that also forgets the Blocks it does not render:
\* self.blocks = [block for block in self.blocks if block]
SrtDoc_str_DropEmpty(bs) ==
    With(BlockIter(SelectSeq(bs, SrtBlock_bool), 1, 1), LAMBDA r :
    [blocks |-> r.blocks, parts |-> r.parts, val |-> Concat(r.parts)])

\* SrtDoc.__str__
SrtDoc_str(bs) ==
    With(BlockIter(bs, 1, 1), LAMBDA r :
    [blocks |-> r.blocks, parts |-> r.parts, val |-> Concat(r.parts)])

\* the Spans one Line yields, as references <<block, line, frase>>
LineRefs(bs, b, l) ==
    [f \in 1..Len(bs[b].lines[l]._frases) |-> <<b, l, f>>]

RECURSIVE BlockRefs(_, _, _)
BlockRefs(bs, b, l) ==
    IF l > Len(bs[b].lines) THEN <<>>
    ELSE LineRefs(bs, b, l) \o BlockRefs(bs, b, l + 1)

RECURSIVE DocRefs(_, _)
DocRefs(bs, b) ==
    IF b > Len(bs) THEN <<>>
    ELSE BlockRefs(bs, b, 1) \o DocRefs(bs, b + 1)

\* the SrtFrase a reference names
FraseAt(bs, r) == bs[r[1]].lines[r[2]]._frases[r[3]]

\* frases() with "if frase": the Spans whose text is empty are skipped
frases_Truthy(bs) ==
    SelectSeq(DocRefs(bs, 1), LAMBDA r : SrtFrase_bool(FraseAt(bs, r)))

\* SrtDoc.frases(), run to its end: a Span object is named by where it lives
frases(bs) == DocRefs(bs, 1)

\* the setter putting a new SrtFrase(value, None, None) in the Span's place
SetFraseText_DropTags(bs, r, value) ==
    [bs EXCEPT ![r[1]].lines[r[2]]._frases[r[3]] =
        [@ EXCEPT !._text = value, !.open_tags = <<>>, !.closing_tags = <<>>]]

\* SrtFrase.text setter on the Span a reference names
SetFraseText(bs, r, value) ==
    [bs EXCEPT ![r[1]].lines[r[2]]._frases[r[3]]._text = value]

\* the setter with orig.lines = trans.lines as well
SetDocText_Lines(bs, value) ==
    [i \in 1..Len(bs) |->
        IF i <= Len(value)
        THEN [bs[i] EXCEPT !.text = << value[i] >>, !.lines = value[i].lines]
        ELSE bs[i]]

\* SrtDoc.text setter: orig.text = trans over zip(self.blocks, value.blocks)
SetDocText(bs, value) ==
    [i \in 1..Len(bs) |->
        IF i <= Len(value) THEN [bs[i] EXCEPT !.text = << value[i] >>]
        ELSE bs[i]]

-----------------------------------------------------------------------------
(* Inputs: documents are chunks joined by the blank-line separator *)

TimeA == <<"0", ">", "1">>
TimeB == <<"2", ">", "3">>
TimeC == <<"4", ">", "5">>

TaggedLine == FontOpenTag \o <<"x">> \o FontCloseTag

\* the stretches of text a generated document is made of:
\*   a chunk of one physical line;
\*   an index and a time range with no text, three newlines, then a Block of
\*   a blank line and a line of two Spans;
\*   a Block of two lines of one Span, with the separator that ends a file
DocPieces ==
    { <<" ", "7">>,
      Join(<<"\n">>, << <<"5">>, TimeA, <<>>, <<>>,
                        <<"1">>, TimeB, <<" ">>, <<"x">> \o TaggedLine >>),
      Join(<<"\n">>, << <<"7">>, TimeC, TaggedLine, <<"x", " ", "x">>, <<>>, <<>> >>) }

DocInputs ==
    { Join(<<"\n", "\n">>, ps) :
        ps \in UNION { [1..n -> DocPieces] : n \in 0..MaxParts } }

\* what a translator returns for a Span
Translations == { <<>>, <<"y", " ">> }

\* the texts of translated counterpart Documents
CounterpartInputs ==
    { Join(<<"\n", "\n">>,
           << Join(<<"\n">>, << <<"1">>, TimeA, <<"y">> >>),
              Join(<<"\n">>, << <<"2">>, TimeB, <<"y", "y">> >>) >>) }

-----------------------------------------------------------------------------
(* A Document and its caller: Spec *)

Init ==
    \E text \in DocInputs, ign \in BOOLEAN :
        \E doc \in {SrtDoc(text, ign)} :
        /\ srt_doc = text
        /\ ignore_colours = ign
        /\ blocks = doc.blocks
        /\ ret = [op |-> "init", exc |-> doc.exc]
        /\ pass1 = <<>>
        /\ raw = <<>>
        /\ line = <<>>
        /\ player = <<>>
        /\ events = <<>>

\* list(doc.frases())
Frases ==
    \E refs \in {frases(blocks)} :
    /\ ret' = [op |-> "frases", val |-> refs,
                pass |-> IF pass1 = <<>> THEN 1 ELSE 2]
    /\ pass1' = IF pass1 = <<>> THEN << refs >> ELSE pass1
    /\ UNCHANGED <<srt_doc, ignore_colours, blocks, raw, line, player,
                 events>>

\* frase.text = value, on the i-th Span of doc.frases()
SetText ==
    \E i \in 1..Len(frases(blocks)), value \in Translations :
        /\ blocks' = SetFraseText(blocks, frases(blocks)[i], value)
        /\ ret' = [op |-> "assign"]
        /\ UNCHANGED <<srt_doc, ignore_colours, pass1, raw, line, player,
                 events>>

\* str(doc)
Render ==
    \E r \in {SrtDoc_str(blocks)} :
    /\ blocks' = r.blocks
    /\ ret' = [op |-> "str", val |-> r.val, parts |-> r.parts]
    /\ UNCHANGED <<srt_doc, ignore_colours, pass1, raw, line, player,
                 events>>

\* doc.text = value, value a translated counterpart Document
DocTextSet ==
    \E text \in CounterpartInputs :
        /\ blocks' = SetDocText(blocks, SrtDoc(text, ignore_colours).blocks)
        /\ ret' = [op |-> "assign"]
        /\ UNCHANGED <<srt_doc, ignore_colours, pass1, raw, line, player,
                 events>>

Next == Frases \/ SetText \/ Render

Spec == Init /\ [][Next]_vars

-----------------------------------------------------------------------------
(* Properties of the Document: Spec *)

\* what the constructor makes of each input document, tabulated
ParsedDocs ==
    { [srt_doc |-> d, ignore_colours |-> i, blocks |-> SrtDoc(d, i).blocks] :
        d \in DocInputs, i \in BOOLEAN }

\* the Document as the constructor left it
Parsed ==
    (CHOOSE p \in ParsedDocs :
        p.srt_doc = srt_doc /\ p.ignore_colours = ignore_colours).blocks

\* the Blocks that have at least one Line, in document order
PresentBlocks(bs) == SelectSeq(bs, LAMBDA b : b.lines # <<>>)

\* the text of a rendered Block labelled k whose Lines render as lineStrs
BlockText(k, time, lineStrs) ==
    Join(<<"\n">>, <<Str(k), time>> \o lineStrs \o << <<"\n">> >>)

\* C1: render() outputs exactly the present Blocks, in their original
\* relative order, and the k rendered Blocks carry the labels "1".."k",
\* whatever the input labels were and however many empty Blocks were dropped.
C1_RenderRenumbers ==
    ret.op = "str" =>
        LET present == PresentBlocks(blocks)
            orig    == PresentBlocks(Parsed)
        IN /\ Len(ret.parts) = Len(present)
           /\ Len(orig) = Len(present)
           /\ ret.val = Concat(ret.parts)
           /\ \A k \in 1..Len(present) :
                /\ present[k].idx = Str(k)
                /\ present[k]._time = orig[k]._time
                /\ ret.parts[k] =
                     BlockText(k, orig[k]._time,
                               [l \in 1..Len(present[k].lines) |->
                                    SrtLine_str(present[k].lines[l])])

\* C1 witness: a render that dropped an empty Block between two present ones
\* and gave the second a label other than the one it was parsed with
C1_Witness ==
    /\ ret.op = "str"
    /\ Len(ret.parts) >= 2
    /\ \E i, j, k \in 1..Len(blocks) :
          /\ i < j /\ j < k
          /\ blocks[i].lines # <<>>
          /\ blocks[j].lines = <<>>
          /\ blocks[k].lines # <<>>
          /\ blocks[k].idx \notin {<<"1">>, <<"5">>, <<"7">>}

\* the references of every Span of a Document
AllRefs(bs) ==
    UNION { UNION { { <<b, l, f>> : f \in 1..Len(bs[b].lines[l]._frases) } :
                    l \in 1..Len(bs[b].lines) } :
            b \in 1..Len(bs) }

\* document order: Block, then Line, then Span
RefBefore(r, q) ==
    \/ r[1] < q[1]
    \/ r[1] = q[1] /\ r[2] < q[2]
    \/ r[1] = q[1] /\ r[2] = q[2] /\ r[3] < q[3]

\* every Span text differs from the parsed one: every Span was overwritten
\* (no translation equals a source text)
AllOverwritten(parsed) ==
    \A r \in AllRefs(parsed) :
        FraseAt(blocks, r)._text # FraseAt(parsed, r)._text

\* the rendered Blocks when the Span at r renders as SpanStr(r): the labels
\* 1..k, the parsed time ranges, the parsed Lines, Spans joined by a space
ExpectedParts(parsed, SpanStr(_)) ==
    LET present == SelectSeq([b \in 1..Len(parsed) |-> b],
                             LAMBDA b : parsed[b].lines # <<>>)
    IN [k \in 1..Len(present) |->
           LET b == present[k] IN
           BlockText(k, parsed[b]._time,
               [l \in 1..Len(parsed[b].lines) |->
                   Join(<<" ">>,
                        [f \in 1..Len(parsed[b].lines[l]._frases) |->
                            SpanStr(<<b, l, f>>)])])]

\* C2 as stated: after every Span's text was overwritten, render() emits each
\* Span's open_markup and close_markup unchanged around the translated text,
\* in the same Block/Line structure.
C2_MarkupAlwaysEmitted ==
    ret.op = "str" =>
        LET parsed == Parsed
            MarkupAround(r) ==
                FraseAt(parsed, r).open_tags \o FraseAt(blocks, r)._text
                    \o FraseAt(parsed, r).closing_tags
        IN AllOverwritten(parsed) =>
               ret.parts = ExpectedParts(parsed, MarkupAround)

\* C2 amended: after every Span's text was overwritten, render() emits, at the
\* Span's position in the unchanged Block/Line structure, open_markup +
\* text + close_markup when suppress_markup is false and the text is not
\* empty, the text alone when suppress_markup is true, and nothing for an
\* empty text.
C2_MarkupReattached ==
    ret.op = "str" =>
        LET parsed == Parsed
            MarkupUnlessSuppressedOrEmpty(r) ==
                IF FraseAt(blocks, r)._text = <<>> THEN <<>>
                ELSE IF ignore_colours THEN FraseAt(blocks, r)._text
                ELSE FraseAt(parsed, r).open_tags \o FraseAt(blocks, r)._text
                         \o FraseAt(parsed, r).closing_tags
        IN AllOverwritten(parsed) =>
               ret.parts = ExpectedParts(parsed, MarkupUnlessSuppressedOrEmpty)

\* C2 witness: a render, markup not suppressed, after every Span of a Document
\* with tagged Spans on several Lines got a non-empty translation
C2_Witness ==
    /\ ret.op = "str"
    /\ ~ignore_colours
    /\ Len(ret.parts) >= 2
    /\ AllOverwritten(Parsed)
    /\ \A r \in AllRefs(blocks) : FraseAt(blocks, r)._text # <<>>
    /\ \E r \in AllRefs(blocks) : FraseAt(blocks, r).open_tags # <<>>

\* C3: two frases() passes over the same Document yield the same Spans in the
\* same order (Block, then Line, then Span), N of them, also when Span text
\* was overwritten or render() was called between the passes.
C3_SpansStable ==
    (ret.op = "frases" /\ pass1 # <<>>) =>
        LET all == AllRefs(Parsed) IN
        /\ ret.val = pass1[1]
        /\ Len(ret.val) = Cardinality(all)
        /\ { ret.val[i] : i \in 1..Len(ret.val) } = all
        /\ \A i, j \in 1..Len(ret.val) :
               i < j => RefBefore(ret.val[i], ret.val[j])

\* C3 witness: a second pass over Spans on several Blocks and Lines, after a
\* render renumbered a Block and a Span's text was overwritten with ''
C3_Witness ==
    /\ ret.op = "frases"
    /\ ret.pass = 2
    /\ Len(ret.val) >= 4
    /\ \E r \in AllRefs(blocks) : FraseAt(blocks, r)._text = <<>>
    /\ LET parsed == Parsed IN
       \E b \in 1..Len(blocks) : blocks[b].idx # parsed[b].idx

\* C4 as stated: in every reachable state every Span's text is
\* whitespace-trimmed and no Line retains a Span whose text is empty.
C4_TextTrimmedNonEmpty ==
    \A r \in AllRefs(blocks) :
        /\ FraseAt(blocks, r)._text = Strip(FraseAt(blocks, r)._text)
        /\ FraseAt(blocks, r)._text # <<>>

\* the chunks the Document constructor hands to the Block constructor, for
\* each input document
ChunkLists ==
    { [srt_doc |-> d,
       chunks  |-> SelectSeq(Split(d, <<"\n", "\n">>), LAMBDA c : c # <<>>)] :
        d \in DocInputs }

\* the chunks of the Document's text
Chunks == (CHOOSE p \in ChunkLists : p.srt_doc = srt_doc).chunks

\* a chunk of fewer than 2 physical lines
Truncated(chunk) == \A i \in 1..Len(chunk) : chunk[i] # "\n"

\* C5: parsing never raises; a chunk of fewer than 2 physical lines yields a
\* Block with index and time_range populated as far as possible and no
\* Lines, kept in blocks at parse time and dropped only at render time.
C5_TruncatedTolerated ==
    LET chunks == Chunks IN
    /\ ret.op = "init" => ret.exc = "none"
    /\ Len(blocks) = Len(chunks)
    /\ \A i \in 1..Len(blocks) :
          Truncated(chunks[i]) =>
              /\ blocks[i].idx = Strip(chunks[i])
              /\ blocks[i]._time = <<>>
              /\ blocks[i].lines = <<>>
    /\ ret.op = "str" =>
          Len(ret.parts) =
              Cardinality({ i \in 1..Len(blocks) : ~Truncated(chunks[i])
                                                   /\ blocks[i].lines # <<>> })

\* C5 witness: a render of a Document that holds the Block of a one-line
\* chunk beside a Block with text
C5_Witness ==
    /\ ret.op = "str"
    /\ Len(ret.parts) >= 1
    /\ LET chunks == Chunks IN
       \E i \in 1..Len(blocks) :
          /\ Truncated(chunks[i])
          /\ blocks[i].idx = <<"7">>
          /\ blocks[i].lines = <<>>

-----------------------------------------------------------------------------
(* A Document and the block-level text setter: SpecDocText *)

NextDocText == DocTextSet \/ SetText \/ Render

SpecDocText == Init /\ [][NextDocText]_vars

\* the text of every Span, in frases() order
FraseTexts(bs) ==
    LET refs == frases(bs) IN
    [i \in 1..Len(refs) |-> FraseAt(bs, refs[i])._text]

\* C10: assigning a translated counterpart Document to the Document's text
\* sets an attribute of its Blocks that the render path never reads: render()
\* and the text of every Span of frases() are the same after it as before.
C10_DocTextSetterInert ==
    [][ (\E i \in 1..Len(blocks) : blocks'[i].text # blocks[i].text) =>
            /\ SrtDoc_str(blocks').val = SrtDoc_str(blocks).val
            /\ FraseTexts(blocks') = FraseTexts(blocks)
            /\ frases(blocks') = frases(blocks) ]_vars

\* C10 witness: a Block with text holds, in its attribute text, a counterpart
\* Block whose Lines are not its own
C10_Witness ==
    \E i \in 1..Len(blocks) :
        /\ blocks[i].text # <<>>
        /\ blocks[i].lines # <<>>
        /\ blocks[i].text[1].lines # <<>>
        /\ blocks[i].text[1].lines # blocks[i].lines

-----------------------------------------------------------------------------
(* Render as a frame: Spec *)

\* C11: render() is idempotent and changes nothing but the index labels of
\* present Blocks: a render leaves the number and order of Blocks, every time
\* range, every Line with its Spans' text and markup, and the label of every
\* empty Block as they were, and a second render right after it returns the
\* identical string and changes nothing at all.
C11_RenderIdempotentFrame ==
    [][ ret'.op = "str" =>
            /\ Len(blocks') = Len(blocks)
            /\ \A i \in 1..Len(blocks) :
                   /\ blocks'[i]._time = blocks[i]._time
                   /\ blocks'[i].lines = blocks[i].lines
                   /\ blocks'[i] = [blocks[i] EXCEPT !.idx = blocks'[i].idx]
                   /\ blocks[i].lines = <<>> => blocks'[i].idx = blocks[i].idx
            /\ SrtDoc_str(blocks').val = ret'.val
            /\ SrtDoc_str(blocks').blocks = blocks' ]_vars

\* C11 witness: a render of a Document with an overwritten Span that gave a
\* present Block a new label and left an empty Block the label "5" it was
\* parsed with
C11_Witness ==
    /\ ret.op = "str"
    /\ \E i, j \in 1..Len(blocks) :
          /\ blocks[i].lines = <<>>
          /\ blocks[i].idx = <<"5">>
          /\ blocks[j].lines # <<>>
          /\ blocks[j].idx # Parsed[j].idx
          /\ \E l \in 1..Len(blocks[j].lines) :
                 blocks[j].lines[l] # Parsed[j].lines[l]

-----------------------------------------------------------------------------
(* PlayerMonitor of service.py: SpecMonitor.  The settings and the state of *)
(* the subtitle-search window are read anew by every handler, so they are  *)
(* inputs of each event.  executed tells whether the handler called        *)
(* _execute_subtitles_translation.                                         *)

\* PlayerMonitor.__init__
PlayerMonitor ==
    [_cur_file |-> <<>>, _subtitles_may_be_downloaded |-> FALSE]

\* PlayerMonitor.onAVStarted
onAVStarted(self, run_on_start) ==
    [self |-> self, executed |-> run_on_start]

\* PlayerMonitor.onPlayBackPaused
onPlayBackPaused(self, run_on_pause, subtitlesearch) ==
    IF run_on_pause
    THEN IF subtitlesearch
         THEN [self |-> [self EXCEPT !._subtitles_may_be_downloaded = TRUE],
               executed |-> FALSE]
         ELSE [self |-> self, executed |-> TRUE]
    ELSE [self |-> self, executed |-> FALSE]

\* PlayerMonitor.onPlayBackResumed
onPlayBackResumed(self, run_on_pause) ==
    IF run_on_pause /\ self._subtitles_may_be_downloaded
    THEN [self |-> [self EXCEPT !._subtitles_may_be_downloaded = FALSE],
          executed |-> TRUE]
    ELSE [self |-> self, executed |-> FALSE]

InitMonitor ==
    /\ player = PlayerMonitor
    /\ events = <<>>
    /\ ret = [op |-> "new"]
    /\ srt_doc = <<>>
    /\ ignore_colours = FALSE
    /\ blocks = <<>>
    /\ pass1 = <<>>
    /\ raw = <<>>
    /\ line = <<>>

\* Kodi reports that playback started
AVStarted ==
    \E run_on_start \in BOOLEAN :
    \E r \in {onAVStarted(player, run_on_start)} :
        /\ Len(events) < MaxEvents
        /\ player' = r.self
        /\ events' = Append(events,
               [op |-> "onAVStarted", run_on_start |-> run_on_start,
                executed |-> r.executed,
                _subtitles_may_be_downloaded |->
                    r.self._subtitles_may_be_downloaded])
        /\ UNCHANGED <<srt_doc, ignore_colours, blocks, ret, pass1, raw, line>>

\* Kodi reports a pause
PlayBackPaused ==
    \E run_on_pause \in BOOLEAN, subtitlesearch \in BOOLEAN :
    \E r \in {onPlayBackPaused(player, run_on_pause, subtitlesearch)} :
        /\ Len(events) < MaxEvents
        /\ player' = r.self
        /\ events' = Append(events,
               [op |-> "onPlayBackPaused", run_on_pause |-> run_on_pause,
                subtitlesearch |-> subtitlesearch,
                executed |-> r.executed,
                _subtitles_may_be_downloaded |->
                    r.self._subtitles_may_be_downloaded])
        /\ UNCHANGED <<srt_doc, ignore_colours, blocks, ret, pass1, raw, line>>

\* Kodi reports a resume
PlayBackResumed ==
    \E run_on_pause \in BOOLEAN :
    \E r \in {onPlayBackResumed(player, run_on_pause)} :
        /\ Len(events) < MaxEvents
        /\ player' = r.self
        /\ events' = Append(events,
               [op |-> "onPlayBackResumed", run_on_pause |-> run_on_pause,
                executed |-> r.executed,
                _subtitles_may_be_downloaded |->
                    r.self._subtitles_may_be_downloaded])
        /\ UNCHANGED <<srt_doc, ignore_colours, blocks, ret, pass1, raw, line>>

NextMonitor == AVStarted \/ PlayBackPaused \/ PlayBackResumed

SpecMonitor == InitMonitor /\ [][NextMonitor]_vars

\* the pause events before event n
PausesBefore(n) ==
    { k \in 1..(n - 1) : events[k].op = "onPlayBackPaused" }

\* the most recent pause event before event n, 0 when there is none
LastPause(n) ==
    IF PausesBefore(n) = {} THEN 0
    ELSE CHOOSE k \in PausesBefore(n) : \A j \in PausesBefore(n) : j <= k

\* C12 as stated: a resume event starts a translation only when the most
\* recent pause event was skipped because the subtitle-search window was
\* active, and then the deferral flag is cleared; a pause with the
\* subtitle-search window active never starts a translation itself.
C12_ResumeOnlyAfterDeferredPause ==
    \A n \in 1..Len(events) :
        /\ (events[n].op = "onPlayBackResumed" /\ events[n].executed) =>
               /\ LastPause(n) # 0
               /\ events[LastPause(n)].run_on_pause
               /\ events[LastPause(n)].subtitlesearch
               /\ ~events[n]._subtitles_may_be_downloaded
        /\ (events[n].op = "onPlayBackPaused" /\ events[n].subtitlesearch) =>
               ~events[n].executed

====
